---- MODULE Spec2Model ----
(***************************************************************************)
(* Milan metro graph: construction (task_1.py), depth-first and            *)
(* breadth-first path search (task_2.py), Dijkstra's algorithm and the     *)
(* distance ranking (task_3.py).                                           *)
(*                                                                         *)
(* The graph is a networkx.Graph: an insertion-ordered dictionary of       *)
(* nodes, and for every node an insertion-ordered dictionary of its        *)
(* neighbours carrying the edge attributes.                                *)
(***************************************************************************)
EXTENDS Integers, Sequences, FiniteSets

\* ------------------------------------------------------------------ bounds
\* station identifiers that occur in the records and in the calls: 1..MaxStation
MaxStation == 3
\* number of distinct connections a graph holds
MaxEdges == 3
\* connection weights of the records: -NegWeight..MaxWeight
MaxWeight == 1
NegWeight == 1
\* closest_count and farthest_count of the calls: 0..MaxCount
MaxCount == 2

StationIds == 1..MaxStation
Weights == (0 - NegWeight)..MaxWeight
Counts == 0..MaxCount

\* float('infinity'): larger than every sum of weights the model can form
Infinity == 1000000

VARIABLES
    phase,   \* position of create_metro_graph: "stations", "edges", "built"
    nodes,   \* G.nodes(): the node identifiers in insertion order
    named,   \* the nodes that carry a 'name' attribute (added from a station record)
    adj,     \* G.adj: node -> its neighbours in insertion order
    wt,      \* <<u, v>> -> G[u][v]['weight']
    call     \* the last engine call: its operation, arguments and outcome

vars == <<phase, nodes, named, adj, wt, call>>

\* ------------------------------------------------------------------ helpers
Range(s) == {s[i] : i \in 1..Len(s)}

Contains(s, x) == \E i \in 1..Len(s) : s[i] = x

\* dictionary insertion: a new key goes to the end, an old key keeps its place
Insert(s, x) == IF Contains(s, x) THEN s ELSE Append(s, x)

NodeSet == Range(nodes)

\* the connections of the graph as unordered pairs
EdgeSet == {{p[1], p[2]} : p \in DOMAIN wt}

NoCall == [op |-> "none"]

\* ------------------------------------------------------------------ construction
Init ==
    /\ phase = "stations"
    /\ nodes = <<>>
    /\ named = {}
    /\ adj = <<>>
    /\ wt = <<>>
    /\ call = NoCall

\* nx.Graph.add_node(n, **attr) on the state (ns, ad): a new node gets an empty
\* neighbour dictionary, an old one only has its attributes updated
AddNodeNodes(ns, n) == Insert(ns, n)

AddNodeAdj(ns, ad, n) ==
    IF Contains(ns, n) THEN ad
    ELSE [m \in Range(ns) \cup {n} |-> IF m = n THEN <<>> ELSE ad[m]]

\* G.add_node(station['id'], name=..., line=..., coordinates=...); the station
\* records carry the identifiers 1, 2, 3, ... in this order
AddStation(id) ==
    /\ phase = "stations"
    /\ id = Len(nodes) + 1
    /\ nodes' = AddNodeNodes(nodes, id)
    /\ adj' = AddNodeAdj(nodes, adj, id)
    /\ named' = named \cup {id}
    /\ UNCHANGED <<phase, wt, call>>

\* the station loop of create_metro_graph is over
StationsDone ==
    /\ phase = "stations"
    /\ phase' = "edges"
    /\ UNCHANGED <<nodes, named, adj, wt, call>>

\* nx.Graph.add_edge(u, v, **attr): u and then v are created when missing,
\* then adj[u][v] and adj[v][u] are set to the attributes
AddEdgeNodes(ns, u, v) == AddNodeNodes(AddNodeNodes(ns, u), v)

AddEdgeAdj(ns, ad, u, v) ==
    LET ad1 == AddNodeAdj(ns, ad, u)
        ad2 == AddNodeAdj(AddNodeNodes(ns, u), ad1, v)
        ad3 == [ad2 EXCEPT ![u] = Insert(@, v)]
    IN  [ad3 EXCEPT ![v] = Insert(@, u)]

AddEdgeWeight(w0, u, v, w) ==
    [p \in DOMAIN w0 \cup {<<u, v>>, <<v, u>>} |->
        IF p \in {<<u, v>>, <<v, u>>} THEN w ELSE w0[p]]

\* G.add_edge(edge['from'], edge['to'], line=..., weight=edge['weight'])
AddEdge(from, to, w) ==
    /\ phase = "edges"
    /\ \/ {from, to} \in EdgeSet
       \/ Cardinality(EdgeSet) < MaxEdges
    /\ nodes' = AddEdgeNodes(nodes, from, to)
    /\ adj' = AddEdgeAdj(nodes, adj, from, to)
    /\ wt' = AddEdgeWeight(wt, from, to, w)
    /\ UNCHANGED <<phase, named, call>>

\* return G
EdgesDone ==
    /\ phase = "edges"
    /\ phase' = "built"
    /\ UNCHANGED <<nodes, named, adj, wt, call>>

Build ==
    \/ \E id \in StationIds : AddStation(id)
    \/ StationsDone
    \/ \E from \in StationIds, to \in StationIds, w \in Weights : AddEdge(from, to, w)
    \/ EdgesDone

\* ------------------------------------------------------------------ task_2.py
\* Python's None, for a path (a list) and for a predecessor (a node)
None == <<>>
NoVertex == 0

\* `n in graph`: graph.neighbors(n) raises NetworkXError when this is false
has_node(n) == n \in NodeSet

\* graph.neighbors(n): the keys of adj[n] in insertion order
neighbors(n) == adj[n]

\* dfs_path(graph, start, goal, path).  The value is [raised, result, calls]:
\* result is what the call returns (None when the loop over the neighbours runs
\* out), raised says that the call ended in an exception instead, and calls
\* lists, in the order of invocation, the path of every invocation after its
\* line 30 (path = path + [start])
RECURSIVE dfs_path(_, _, _), dfs_neighbors(_, _, _, _, _)
RECURSIVE dfs_neighbors_first_only(_, _, _, _, _)
dfs_path(start, goal, path) ==
    LET p == Append(path, start)
    IN  IF start = goal
        THEN [raised |-> FALSE, result |-> p, calls |-> <<p>>]
        ELSE IF ~has_node(start)
        THEN [raised |-> TRUE, result |-> None, calls |-> <<p>>]
        ELSE dfs_neighbors(neighbors(start), 1, goal, p, <<p>>)

\* dfs_neighbors with `return dfs_path(graph, neighbor, goal, path)` in the loop:
\* the first neighbour that is not on the path decides, the others are not tried
dfs_neighbors_first_only(nbrs, i, goal, p, calls) ==
    IF i > Len(nbrs) THEN [raised |-> FALSE, result |-> None, calls |-> calls]
    ELSE IF Contains(p, nbrs[i])
         THEN dfs_neighbors_first_only(nbrs, i + 1, goal, p, calls)
    ELSE LET r == dfs_path(nbrs[i], goal, p)
         IN  [raised |-> r.raised, result |-> r.result, calls |-> calls \o r.calls]

\* the for loop of dfs_path from the i-th neighbour on; `if new_path:` is false
\* for None and for an empty list
dfs_neighbors(nbrs, i, goal, p, calls) ==
    IF i > Len(nbrs) THEN [raised |-> FALSE, result |-> None, calls |-> calls]
    ELSE IF Contains(p, nbrs[i]) THEN dfs_neighbors(nbrs, i + 1, goal, p, calls)
    ELSE LET r == dfs_path(nbrs[i], goal, p)
         IN  IF r.raised \/ r.result # <<>>
             THEN [raised |-> r.raised, result |-> r.result,
                   calls |-> calls \o r.calls]
             ELSE dfs_neighbors(nbrs, i + 1, goal, p, calls \o r.calls)

\* bfs_path(graph, start, goal) from line 65 on: the while loop over the queue of
\* <<node, path>> entries with the visited set; the for loop over the neighbours
\* of the popped node is bfs_neighbors, which either returns the path found or
\* goes on with the next queue entry.  The value is [raised, result]
RECURSIVE bfs_loop(_, _, _), bfs_neighbors(_, _, _, _, _, _)
RECURSIVE bfs_neighbors_stale_path(_, _, _, _, _, _)
bfs_loop(queue, visited, goal) ==
    IF queue = <<>> THEN [raised |-> FALSE, result |-> None]
    ELSE IF ~has_node(Head(queue)[1]) THEN [raised |-> TRUE, result |-> None]
    ELSE bfs_neighbors(neighbors(Head(queue)[1]), 1, Head(queue)[2],
                       Tail(queue), visited, goal)

\* bfs_neighbors with queue.append((neighbor, path)): the entry carries the path
\* to the popped node instead of the path to the neighbour
bfs_neighbors_stale_path(nbrs, i, path, queue, visited, goal) ==
    IF i > Len(nbrs) THEN bfs_loop(queue, visited, goal)
    ELSE IF nbrs[i] \in visited
         THEN bfs_neighbors_stale_path(nbrs, i + 1, path, queue, visited, goal)
    ELSE LET new_path == Append(path, nbrs[i])
         IN  IF nbrs[i] = goal THEN [raised |-> FALSE, result |-> new_path]
             ELSE bfs_neighbors_stale_path(nbrs, i + 1, path,
                                           Append(queue, <<nbrs[i], path>>),
                                           visited \cup {nbrs[i]}, goal)

bfs_neighbors(nbrs, i, path, queue, visited, goal) ==
    IF i > Len(nbrs) THEN bfs_loop(queue, visited, goal)
    ELSE IF nbrs[i] \in visited
         THEN bfs_neighbors(nbrs, i + 1, path, queue, visited, goal)
    ELSE LET new_path == Append(path, nbrs[i])
         IN  IF nbrs[i] = goal THEN [raised |-> FALSE, result |-> new_path]
             ELSE bfs_neighbors(nbrs, i + 1, path,
                                Append(queue, <<nbrs[i], new_path>>),
                                visited \cup {nbrs[i]}, goal)

bfs_path(start, goal) ==
    IF start = goal THEN [raised |-> FALSE, result |-> <<start>>]
    ELSE bfs_loop(<< <<start, <<start>> >> >>, {start}, goal)

\* a call of dfs_path(graph, start, goal)
CallDfs(start, goal) ==
    /\ phase = "built"
    /\ call = NoCall
    /\ LET r == dfs_path(start, goal, <<>>)
       IN  call' = [op |-> "dfs_path", start |-> start, goal |-> goal,
                    raised |-> r.raised, path |-> r.result, calls |-> r.calls]
    /\ UNCHANGED <<phase, nodes, named, adj, wt>>

\* a call of bfs_path(graph, start, goal)
CallBfs(start, goal) ==
    /\ phase = "built"
    /\ call = NoCall
    /\ LET r == bfs_path(start, goal)
       IN  call' = [op |-> "bfs_path", start |-> start, goal |-> goal,
                    raised |-> r.raised, path |-> r.result]
    /\ UNCHANGED <<phase, nodes, named, adj, wt>>

\* ------------------------------------------------------------------ task_3.py
\* a choice of the current vertex that takes the first vertex of the list that
\* has been reached at all, whatever its distance
MinVertex_first_reached(unvisited, distances) ==
    LET reached == {i \in 1..Len(unvisited) : distances[unvisited[i]] # Infinity}
    IN  IF reached = {} THEN unvisited[1]
        ELSE unvisited[CHOOSE i \in reached : \A j \in reached : i <= j]

\* min(unvisited, key=lambda vertex: distances[vertex]): the first of the
\* vertices of the list with the least distance
MinVertex(unvisited, distances) ==
    LET i == CHOOSE i \in 1..Len(unvisited) :
                 /\ \A j \in 1..Len(unvisited) :
                        distances[unvisited[i]] <= distances[unvisited[j]]
                 /\ \A j \in 1..(i - 1) :
                        distances[unvisited[j]] > distances[unvisited[i]]
    IN  unvisited[i]

\* list.remove(x): the list without the first occurrence of x
Remove(s, x) ==
    LET i == CHOOSE i \in 1..Len(s) : s[i] = x /\ \A j \in 1..(i - 1) : s[j] # x
    IN  SubSeq(s, 1, i - 1) \o SubSeq(s, i + 1, Len(s))

\* {vertex: float('infinity') for vertex in graph.nodes()}; distances[start] = 0
InitDistances(start) ==
    [v \in NodeSet \cup {start} |-> IF v = start THEN 0 ELSE Infinity]

\* the for loop of dijkstra (lines 38-46) from the i-th neighbour of current on
RECURSIVE relax(_, _, _, _, _), relax_without_comparison(_, _, _, _, _)
\* relax without `if distance < distances[neighbor]`: every unvisited neighbour
\* gets the distance over current
relax_without_comparison(nbrs, i, current, unvisited, distances) ==
    IF i > Len(nbrs) THEN distances
    ELSE LET neighbor == nbrs[i]
             distance == distances[current] + wt[<<current, neighbor>>]
         IN  IF Contains(unvisited, neighbor)
             THEN relax_without_comparison(nbrs, i + 1, current, unvisited,
                        [distances EXCEPT ![neighbor] = distance])
             ELSE relax_without_comparison(nbrs, i + 1, current, unvisited,
                                           distances)

relax(nbrs, i, current, unvisited, distances) ==
    IF i > Len(nbrs) THEN distances
    ELSE LET neighbor == nbrs[i]
             distance == distances[current] + wt[<<current, neighbor>>]
         IN  IF Contains(unvisited, neighbor) /\ distance < distances[neighbor]
             THEN relax(nbrs, i + 1, current, unvisited,
                        [distances EXCEPT ![neighbor] = distance])
             ELSE relax(nbrs, i + 1, current, unvisited, distances)

\* the while loop of dijkstra (lines 29-49).  The value is [distances, order]:
\* order lists the vertices in the order the loop removes them from unvisited,
\* each with the distance it had when it was chosen
RECURSIVE dijkstra_loop(_, _, _)
dijkstra_loop(unvisited, distances, order) ==
    IF unvisited = <<>> THEN [distances |-> distances, order |-> order]
    ELSE LET current_vertex == MinVertex(unvisited, distances)
         IN  IF distances[current_vertex] = Infinity
             THEN [distances |-> distances, order |-> order]
             ELSE dijkstra_loop(
                      Remove(unvisited, current_vertex),
                      relax(neighbors(current_vertex), 1, current_vertex,
                            unvisited, distances),
                      Append(order, <<current_vertex, distances[current_vertex]>>))

dijkstra(start) == dijkstra_loop(nodes, InitDistances(start), <<>>)

\* the for loop of dijkstra_path (lines 81-90) from the i-th neighbour on; the
\* value is [distances, previous]
RECURSIVE relax_path(_, _, _, _, _, _)
relax_path(nbrs, i, current, unvisited, distances, previous) ==
    IF i > Len(nbrs) THEN [distances |-> distances, previous |-> previous]
    ELSE LET neighbor == nbrs[i]
             distance == distances[current] + wt[<<current, neighbor>>]
         IN  IF Contains(unvisited, neighbor) /\ distance < distances[neighbor]
             THEN relax_path(nbrs, i + 1, current, unvisited,
                             [distances EXCEPT ![neighbor] = distance],
                             [previous EXCEPT ![neighbor] = current])
             ELSE relax_path(nbrs, i + 1, current, unvisited, distances, previous)

\* the while loop of dijkstra_path (lines 72-93); the value is
\* [distances, previous, order], order as in dijkstra_loop
RECURSIVE dijkstra_path_loop(_, _, _, _, _)
RECURSIVE dijkstra_path_loop_stops_on_reach(_, _, _, _, _)
\* dijkstra_path_loop that stops as soon as end has a finite distance, not when
\* end is the vertex chosen
dijkstra_path_loop_stops_on_reach(unvisited, distances, previous, end, order) ==
    IF unvisited = <<>>
    THEN [distances |-> distances, previous |-> previous, order |-> order]
    ELSE LET current_vertex == MinVertex(unvisited, distances)
         IN  IF \/ (end \in DOMAIN distances /\ distances[end] # Infinity)
                \/ distances[current_vertex] = Infinity
             THEN [distances |-> distances, previous |-> previous, order |-> order]
             ELSE LET r == relax_path(neighbors(current_vertex), 1, current_vertex,
                                      unvisited, distances, previous)
                  IN  dijkstra_path_loop_stops_on_reach(
                          Remove(unvisited, current_vertex), r.distances,
                          r.previous, end,
                          Append(order,
                                 <<current_vertex, distances[current_vertex]>>))

dijkstra_path_loop(unvisited, distances, previous, end, order) ==
    IF unvisited = <<>>
    THEN [distances |-> distances, previous |-> previous, order |-> order]
    ELSE LET current_vertex == MinVertex(unvisited, distances)
         IN  IF current_vertex = end \/ distances[current_vertex] = Infinity
             THEN [distances |-> distances, previous |-> previous, order |-> order]
             ELSE LET r == relax_path(neighbors(current_vertex), 1, current_vertex,
                                      unvisited, distances, previous)
                  IN  dijkstra_path_loop(
                          Remove(unvisited, current_vertex), r.distances,
                          r.previous, end,
                          Append(order,
                                 <<current_vertex, distances[current_vertex]>>))

\* dijkstra_path without path.reverse()
NotReversed(s) == s

Reverse(s) == [i \in 1..Len(s) |-> s[Len(s) + 1 - i]]

\* the reconstruction loop of dijkstra_path (lines 96-100).  The value is
\* [ended, path]: ended is "done" when the loop reaches None, "raised" when
\* previous has no entry for current (KeyError), and "hangs" when the walk comes
\* back to a vertex it has appended before, after which it goes round for ever
RECURSIVE walk_back(_, _, _)
walk_back(current, previous, path) ==
    IF current = NoVertex THEN [ended |-> "done", path |-> path]
    ELSE IF Contains(path, current) THEN [ended |-> "hangs", path |-> path]
    ELSE IF current \notin DOMAIN previous
         THEN [ended |-> "raised", path |-> Append(path, current)]
    ELSE walk_back(previous[current], previous, Append(path, current))

\* dijkstra_path without the test of lines 104-105: it returns the distance and
\* the reconstructed path whatever the distance is
dijkstra_path_without_test(start, end) ==
    LET r == dijkstra_path_loop(nodes, InitDistances(start),
                                [v \in NodeSet |-> NoVertex], end, <<>>)
        w == walk_back(end, r.previous, <<>>)
    IN  IF w.ended # "done"
        THEN [ended |-> w.ended, distance |-> Infinity, path |-> <<>>,
              order |-> r.order]
        ELSE [ended |-> "done", distance |-> r.distances[end],
              path |-> Reverse(w.path), order |-> r.order]

\* dijkstra_path(graph, start, end); the value is [ended, distance, path, order]
dijkstra_path(start, end) ==
    LET r == dijkstra_path_loop(nodes, InitDistances(start),
                                [v \in NodeSet |-> NoVertex], end, <<>>)
        w == walk_back(end, r.previous, <<>>)
    IN  IF w.ended # "done"
        THEN [ended |-> w.ended, distance |-> Infinity, path |-> <<>>,
              order |-> r.order]
        ELSE IF r.distances[end] = Infinity
        THEN [ended |-> "done", distance |-> Infinity, path |-> <<>>,
              order |-> r.order]
        ELSE [ended |-> "done", distance |-> r.distances[end],
              path |-> Reverse(w.path), order |-> r.order]

\* a dijkstra that takes each vertex it is done with out of the graph as well
\* (graph.remove_node(current_vertex) next to unvisited.remove(current_vertex))
CallDijkstra_removing_nodes(start) ==
    /\ phase = "built"
    /\ call = NoCall
    /\ LET r == dijkstra(start)
           gone == {r.order[i][1] : i \in 1..Len(r.order)}
       IN  /\ call' = [op |-> "dijkstra", start |-> start, raised |-> FALSE,
                       distances |-> r.distances, order |-> r.order]
           /\ nodes' = SelectSeq(nodes, LAMBDA v : v \notin gone)
           /\ named' = named \ gone
           /\ adj' = [v \in NodeSet \ gone |->
                         SelectSeq(adj[v], LAMBDA u : u \notin gone)]
           /\ wt' = [p \in {q \in DOMAIN wt : q[1] \notin gone /\ q[2] \notin gone}
                        |-> wt[p]]
    /\ UNCHANGED phase

\* a call of dijkstra(graph, start)
CallDijkstra(start) ==
    /\ phase = "built"
    /\ call = NoCall
    /\ LET r == dijkstra(start)
       IN  call' = [op |-> "dijkstra", start |-> start, raised |-> FALSE,
                    distances |-> r.distances, order |-> r.order]
    /\ UNCHANGED <<phase, nodes, named, adj, wt>>

\* a call of dijkstra_path(graph, start, end)
CallDijkstraPath(start, end) ==
    /\ phase = "built"
    /\ call = NoCall
    /\ LET r == dijkstra_path(start, end)
       IN  call' = [op |-> "dijkstra_path", start |-> start, goal |-> end,
                    raised |-> (r.ended = "raised"), hangs |-> (r.ended = "hangs"),
                    distance |-> r.distance, path |-> r.path, order |-> r.order]
    /\ UNCHANGED <<phase, nodes, named, adj, wt>>

\* get_station_name(graph, station_id): graph.nodes[station_id]['name'] raises
\* KeyError unless the node exists and carries a name
has_name(station_id) == station_id \in named

\* sorted(distances.items(), key=lambda x: x[1]): the <<station, distance>> items
\* in ascending distance, items of equal distance in the order of the dictionary
\* (the sort is stable); sorted_insert puts one more item behind those not above it
sorted_insert(s, x) ==
    LET i == Cardinality({j \in 1..Len(s) : s[j][2] <= x[2]})
    IN  SubSeq(s, 1, i) \o <<x>> \o SubSeq(s, i + 1, Len(s))

RECURSIVE sorted_items(_, _)
sorted_items(keys, distances) ==
    IF keys = <<>> THEN <<>>
    ELSE sorted_insert(sorted_items(SubSeq(keys, 1, Len(keys) - 1), distances),
                       <<keys[Len(keys)], distances[keys[Len(keys)]]>>)

\* s[:k] for k >= 0
SliceTo(s, k) == SubSeq(s, 1, IF k < Len(s) THEN k ELSE Len(s))

\* s[-m:] for m >= 0: -0 is 0, so s[-0:] is the whole list
SliceLast(s, m) ==
    IF m = 0 \/ m >= Len(s) THEN s ELSE SubSeq(s, Len(s) - m + 1, Len(s))

\* the items a printing loop gets through before get_station_name raises
Printed(items) ==
    LET bad == {i \in 1..Len(items) : ~has_name(items[i][1])}
    IN  IF bad = {} THEN items
        ELSE SubSeq(items, 1, (CHOOSE i \in bad : \A j \in bad : i <= j) - 1)

\* analyze_station_distances(graph, station_id, closest_count, farthest_count);
\* the value is [raised, closest, farthest]: the two lists it prints
analyze_station_distances(station_id, closest_count, farthest_count) ==
    IF ~has_name(station_id)
    THEN [raised |-> TRUE, closest |-> <<>>, farthest |-> <<>>]
    ELSE LET distances == dijkstra(station_id).distances
             sorted_distances == sorted_items(nodes, distances)
             closest_stations ==
                 SliceTo(SelectSeq(sorted_distances, LAMBDA item : item[2] > 0),
                         closest_count)
             farthest_stations == SliceLast(sorted_distances, farthest_count)
         IN  IF Printed(closest_stations) # closest_stations
             THEN [raised |-> TRUE, closest |-> Printed(closest_stations),
                   farthest |-> <<>>]
             ELSE [raised |-> Printed(farthest_stations) # farthest_stations,
                   closest |-> closest_stations,
                   farthest |-> Printed(farthest_stations)]

\* a call of analyze_station_distances(graph, station_id, k, m)
CallAnalyze(station_id, k, m) ==
    /\ phase = "built"
    /\ call = NoCall
    /\ LET r == analyze_station_distances(station_id, k, m)
       IN  call' = [op |-> "analyze_station_distances", start |-> station_id,
                    closest_count |-> k, farthest_count |-> m,
                    raised |-> r.raised, closest |-> r.closest,
                    farthest |-> r.farthest]
    /\ UNCHANGED <<phase, nodes, named, adj, wt>>

\* the caller is done with the result of the call
Return ==
    /\ call # NoCall
    /\ call' = NoCall
    /\ UNCHANGED <<phase, nodes, named, adj, wt>>

Engines ==
    \/ \E start \in StationIds, goal \in StationIds : CallDfs(start, goal)
    \/ \E start \in StationIds, goal \in StationIds : CallBfs(start, goal)
    \/ \E start \in StationIds : CallDijkstra(start)
    \/ \E start \in StationIds, end \in StationIds : CallDijkstraPath(start, end)

Next ==
    \/ Build
    \/ Engines
    \/ Return

Spec == Init /\ [][Next]_vars

\* the session that ranks the stations by distance
NextRanking ==
    \/ Build
    \/ \E station_id \in StationIds, k \in Counts, m \in Counts :
           CallAnalyze(station_id, k, m)
    \/ Return

SpecRanking == Init /\ [][NextRanking]_vars

\* what the engine call recorded in c returns when it is made once more, with the
\* same arguments, on the graph as it is now
Again(c) ==
    CASE c.op = "dfs_path" ->
             LET r == dfs_path(c.start, c.goal, <<>>)
             IN  [op |-> "dfs_path", start |-> c.start, goal |-> c.goal,
                  raised |-> r.raised, path |-> r.result, calls |-> r.calls]
      [] c.op = "bfs_path" ->
             LET r == bfs_path(c.start, c.goal)
             IN  [op |-> "bfs_path", start |-> c.start, goal |-> c.goal,
                  raised |-> r.raised, path |-> r.result]
      [] c.op = "dijkstra" ->
             LET r == dijkstra(c.start)
             IN  [op |-> "dijkstra", start |-> c.start, raised |-> FALSE,
                  distances |-> r.distances, order |-> r.order]
      [] c.op = "dijkstra_path" ->
             LET r == dijkstra_path(c.start, c.goal)
             IN  [op |-> "dijkstra_path", start |-> c.start, goal |-> c.goal,
                  raised |-> (r.ended = "raised"), hangs |-> (r.ended = "hangs"),
                  distance |-> r.distance, path |-> r.path, order |-> r.order]

\* the caller makes the call it has just made a second time and keeps both
\* results.  A call that never came back (the reconstruction loop of
\* dijkstra_path that does not end) cannot be followed by another one
Repeat ==
    /\ phase = "built"
    /\ call.op \in {"dfs_path", "bfs_path", "dijkstra", "dijkstra_path"}
    /\ call.op = "dijkstra_path" => ~call.hangs
    /\ call' = [op |-> "repeat", first |-> call, second |-> Again(call)]
    /\ UNCHANGED <<phase, nodes, named, adj, wt>>

\* the session in which calls are repeated: any sequence of engine calls, each
\* of which may be followed by the same call again
NextSession ==
    \/ Build
    \/ Engines
    \/ Repeat
    \/ Return

SpecSession == Init /\ [][NextSession]_vars

\* ------------------------------------------------------------------ reference
\* every connection weight of the graph is non-negative
NonNegative == \A p \in DOMAIN wt : wt[p] >= 0

\* consecutive stations of p are joined by a connection of the graph
IsWalk(p) == \A i \in 1..(Len(p) - 1) : {p[i], p[i + 1]} \in EdgeSet

\* the paths of the graph from s to t with at most as many hops as the graph has
\* stations (a path with more hops goes through a station twice)
Walks(s, t) ==
    {p \in UNION {[1..k -> NodeSet] : k \in 1..(Len(nodes) + 1)} :
        p[1] = s /\ p[Len(p)] = t /\ IsWalk(p)}

Reachable(s, t) == Walks(s, t) # {}

\* the sum of the connection weights along p
RECURSIVE PathWeight(_)
PathWeight(p) ==
    IF Len(p) <= 1 THEN 0 ELSE wt[<<p[1], p[2]>>] + PathWeight(Tail(p))

Least(S) == CHOOSE x \in S : \A y \in S : x <= y

\* the minimum total weight over the paths from s to t, Infinity without a path
MinDist(s, t) ==
    IF Reachable(s, t) THEN Least({PathWeight(p) : p \in Walks(s, t)}) ELSE Infinity

NoDup(p) == \A i \in 1..Len(p), j \in 1..Len(p) : i # j => p[i] # p[j]

SimplePaths(s, t) == {p \in Walks(s, t) : NoDup(p)}

Position(s, x) == CHOOSE i \in 1..Len(s) : s[i] = x

\* p comes before q in depth-first order: where the two first part, p goes on
\* with the neighbour that comes first in the adjacency of the station they share
DfsBefore(p, q) ==
    \E i \in 2..Len(p) :
        /\ i <= Len(q)
        /\ \A j \in 1..(i - 1) : p[j] = q[j]
        /\ p[i] # q[i]
        /\ Position(neighbors(p[i - 1]), p[i]) < Position(neighbors(p[i - 1]), q[i])

IsPrefix(p, q) == Len(p) <= Len(q) /\ \A i \in 1..Len(p) : p[i] = q[i]

PathCall == call.op \in {"dfs_path", "bfs_path", "dijkstra_path"}

\* ------------------------------------------------------------------ claims
\* C1: on a graph of non-negative weights and for a start station of the graph,
\* dijkstra returns a table with exactly one entry per station, each the minimum
\* total weight over the paths from start to the station (0 for start), and
\* Infinity where there is no path.
C1_DijkstraTableIsMinimal ==
    (call.op = "dijkstra" /\ has_node(call.start) /\ NonNegative) =>
        /\ ~call.raised
        /\ DOMAIN call.distances = NodeSet
        /\ call.distances[call.start] = 0
        /\ \A v \in NodeSet : call.distances[v] = MinDist(call.start, v)

\* a dijkstra call where a station with a direct connection from start is
\* nearer over a detour, and the table says so
C1_Witness ==
    /\ call.op = "dijkstra" /\ has_node(call.start) /\ NonNegative
    /\ \E v \in NodeSet \ {call.start} :
           /\ <<call.start, v>> \in DOMAIN wt
           /\ call.distances[v] < wt[<<call.start, v>>]

\* C2: on a graph of non-negative weights and for end reachable from start,
\* dijkstra_path returns (d, p) where p leads from start to end along connections
\* of total weight d, no path from start to end weighs less than d (those of
\* bfs_path and dfs_path included), and d is dijkstra(graph, start)[end].
C2_DijkstraPathIsShortest ==
    (/\ call.op = "dijkstra_path"
     /\ has_node(call.start) /\ has_node(call.goal)
     /\ NonNegative
     /\ Reachable(call.start, call.goal)) =>
        /\ ~call.raised /\ ~call.hangs
        /\ call.path \in Walks(call.start, call.goal)
        /\ PathWeight(call.path) = call.distance
        /\ \A p \in Walks(call.start, call.goal) : call.distance <= PathWeight(p)
        /\ call.distance <= PathWeight(bfs_path(call.start, call.goal).result)
        /\ call.distance <= PathWeight(dfs_path(call.start, call.goal, <<>>).result)
        /\ call.distance = dijkstra(call.start).distances[call.goal]

\* a dijkstra_path call whose path weighs less than the one bfs_path finds
C2_Witness ==
    /\ call.op = "dijkstra_path" /\ NonNegative
    /\ has_node(call.start) /\ has_node(call.goal)
    /\ Reachable(call.start, call.goal)
    /\ call.distance < PathWeight(bfs_path(call.start, call.goal).result)
    /\ Len(call.path) = 3

\* C3: for goal reachable from start, bfs_path returns a path from start to goal
\* with the fewest hops of all paths, never more than those of the path of
\* dfs_path, and <<start>> when start = goal.
C3_BfsHasFewestHops ==
    (/\ call.op = "bfs_path"
     /\ has_node(call.start) /\ has_node(call.goal)
     /\ Reachable(call.start, call.goal)) =>
        /\ ~call.raised
        /\ call.path \in Walks(call.start, call.goal)
        /\ \A p \in Walks(call.start, call.goal) : Len(call.path) <= Len(p)
        /\ Len(call.path) <= Len(dfs_path(call.start, call.goal, <<>>).result)
        /\ (call.start = call.goal => call.path = <<call.start>>)

\* a bfs_path call whose path has fewer hops than the one dfs_path finds
C3_Witness ==
    /\ call.op = "bfs_path"
    /\ has_node(call.start) /\ has_node(call.goal)
    /\ Reachable(call.start, call.goal)
    /\ Len(call.path) < Len(dfs_path(call.start, call.goal, <<>>).result)

\* C4: a non-empty path returned by dfs_path, bfs_path or dijkstra_path begins
\* with start, ends with goal, and its consecutive stations are joined by
\* connections of the graph.
C4_ReturnedPathsAreValid ==
    (PathCall /\ ~call.raised /\ call.path # <<>>) =>
        /\ call.path[1] = call.start
        /\ call.path[Len(call.path)] = call.goal
        /\ IsWalk(call.path)

\* dijkstra_path has returned a path of two hops
C4_Witness ==
    /\ call.op = "dijkstra_path" /\ ~call.raised
    /\ Len(call.path) = 3

\* C5: for stations start and goal of the graph without a path between them,
\* dfs_path and bfs_path return None, dijkstra_path returns (Infinity, <<>>) and
\* the table of dijkstra holds Infinity for goal; none raises.
C5_DisconnectedGivesNoPath ==
    /\ (/\ call.op \in {"dfs_path", "bfs_path"}
        /\ has_node(call.start) /\ has_node(call.goal)
        /\ ~Reachable(call.start, call.goal)) =>
            (~call.raised /\ call.path = None)
    /\ (/\ call.op = "dijkstra_path"
        /\ has_node(call.start) /\ has_node(call.goal)
        /\ ~Reachable(call.start, call.goal)) =>
            (/\ ~call.raised /\ ~call.hangs
             /\ call.distance = Infinity /\ call.path = <<>>)
    /\ (call.op = "dijkstra" /\ has_node(call.start)) =>
            (/\ ~call.raised
             /\ \A goal \in NodeSet :
                    ~Reachable(call.start, goal) => call.distances[goal] = Infinity)

\* dijkstra_path was called for a start that has connections and a goal in
\* another component
C5_Witness ==
    /\ call.op = "dijkstra_path"
    /\ has_node(call.start) /\ has_node(call.goal)
    /\ ~Reachable(call.start, call.goal)
    /\ neighbors(call.start) # <<>>
    /\ call.distance = Infinity

\* C6: for stations start and goal of the graph dfs_path ends after finitely
\* many invocations (each works on a path without a repeated station, and no
\* two on the same path), and when goal is reachable it returns the path that
\* comes first in depth-first order over the adjacency order, a path without a
\* repeated station.
C6_DfsFindsFirstPath ==
    (call.op = "dfs_path" /\ has_node(call.start) /\ has_node(call.goal)) =>
        /\ ~call.raised
        /\ \A i \in 1..Len(call.calls) : NoDup(call.calls[i])
        /\ \A i \in 1..Len(call.calls), j \in 1..Len(call.calls) :
               i # j => call.calls[i] # call.calls[j]
        /\ Reachable(call.start, call.goal) =>
               /\ call.path \in SimplePaths(call.start, call.goal)
               /\ \A q \in SimplePaths(call.start, call.goal) \ {call.path} :
                      DfsBefore(call.path, q)
               /\ call.path = call.calls[Len(call.calls)]
               /\ \A i \in 1..(Len(call.calls) - 1) :
                      call.calls[i][Len(call.calls[i])] # call.goal

\* dfs_path has returned a path after it gave up a branch that led nowhere
C6_Witness ==
    /\ call.op = "dfs_path" /\ ~call.raised
    /\ call.path # None
    /\ \E i \in 1..Len(call.calls) : ~IsPrefix(call.calls[i], call.path)

\* C7: a connection whose from or to station is not in the station set is
\* refused, so each endpoint of each connection of a built graph was supplied
\* as a station record.
C7_ConnectionsJoinSuppliedStations ==
    (phase = "built") => \A p \in DOMAIN wt : p[1] \in named /\ p[2] \in named

\* C8: a connection record of negative weight is refused when the graph is
\* built, so no built graph holds a connection of negative weight.
C8_NoNegativeWeightIsBuilt ==
    (phase = "built") => \A p \in DOMAIN wt : wt[p] >= 0

\* C9: dfs_path, bfs_path, dijkstra and dijkstra_path raise when start or
\* goal/end is not a station of the graph.
C9_AbsentStationRaises ==
    /\ (PathCall /\ (~has_node(call.start) \/ ~has_node(call.goal))) => call.raised
    /\ (call.op = "dijkstra" /\ ~has_node(call.start)) => call.raised

\* the stations reachable from source, without source, in ascending distance
RankedStations(source) ==
    SelectSeq(sorted_items(nodes, [v \in NodeSet |-> MinDist(source, v)]),
              LAMBDA item : item[1] # source /\ item[2] # Infinity)

\* C10: analyze_station_distances reports as closest the first k and as farthest
\* the last m of the stations reachable from the source, the source removed,
\* in ascending distance (on a graph of non-negative weights whose stations
\* were all supplied as records).
C10_RankingOfReachableStations ==
    (/\ call.op = "analyze_station_distances"
     /\ NodeSet = named /\ has_node(call.start)
     /\ NonNegative) =>
        LET ranked == RankedStations(call.start)
            n == Len(ranked)
            k == IF call.closest_count < n THEN call.closest_count ELSE n
            m == IF call.farthest_count < n THEN call.farthest_count ELSE n
        IN  /\ ~call.raised
            /\ call.closest = SubSeq(ranked, 1, k)
            /\ call.farthest = SubSeq(ranked, n - m + 1, n)

Selected(order) == {order[i][1] : i \in 1..Len(order)}

ReachableFrom(s) == {v \in NodeSet : Reachable(s, v)}

\* the log names the stations in nondecreasing distance, none twice, each with
\* its least distance from start, which is finite and is the one the table
\* holds when the loop is over
SelectedInOrder(start, order, distances) ==
    /\ \A i \in 1..Len(order), j \in 1..Len(order) :
           i < j => /\ order[i][2] <= order[j][2]
                    /\ order[i][1] # order[j][1]
    /\ \A i \in 1..Len(order) :
           /\ order[i][2] # Infinity
           /\ order[i][2] = MinDist(start, order[i][1])
           /\ distances[order[i][1]] = order[i][2]

\* C12: on a graph of non-negative weights dijkstra and dijkstra_path select the
\* stations in nondecreasing tentative distance, each at most once; the distance
\* a station has when it is selected is its least distance from start and is
\* not changed afterwards; and the loop stops as soon as the least tentative
\* distance of the stations left is infinite: dijkstra selects exactly the
\* stations start reaches, dijkstra_path those of them that come before end
C12_SelectionOrder ==
    NonNegative =>
        /\ call.op = "dijkstra" =>
               /\ SelectedInOrder(call.start, call.order, call.distances)
               /\ Selected(call.order) = ReachableFrom(call.start)
        /\ call.op = "dijkstra_path" =>
               LET r == dijkstra_path_loop(nodes, InitDistances(call.start),
                                           [v \in NodeSet |-> NoVertex],
                                           call.goal, <<>>)
                   reach == ReachableFrom(call.start)
               IN  /\ r.order = call.order
                   /\ SelectedInOrder(call.start, call.order, r.distances)
                   /\ Selected(call.order) \subseteq reach \ {call.goal}
                   /\ \A v \in reach \ {call.goal} :
                          (call.goal \notin reach
                              \/ MinDist(call.start, v) < MinDist(call.start, call.goal))
                          => v \in Selected(call.order)

\* dijkstra has selected three stations at three different distances, the
\* second of them a station that stands behind the third in the list of nodes
C12_Witness ==
    /\ call.op = "dijkstra"
    /\ NonNegative
    /\ Len(call.order) = 3
    /\ call.order[1][2] < call.order[2][2]
    /\ call.order[2][2] < call.order[3][2]
    /\ Position(nodes, call.order[2][1]) > Position(nodes, call.order[3][1])

====
